---- MODULE Spec2Model ----
(***************************************************************************)
(* Transaction query and aggregation engine of the personal-finance        *)
(* backend: the handlers of controllers/transactionController.js, the      *)
(* routes and validation chains of routes/auth.js and the Transaction      *)
(* schema listed in README.md.                                             *)
(*                                                                         *)
(* The document store is the set `store` of transaction documents; every   *)
(* handler is one action that reads or writes `store` and leaves the HTTP  *)
(* response it sent in `resp`, except getTransactions, which awaits the    *)
(* store twice: it is one action per storage call, and `pending` holds the *)
(* list requests between the two.  Strings are sequences of one-character  *)
(* strings, amounts are integers in thousandths of a currency unit, and a  *)
(* Date is the integer Instant(y, m, d, h) (hours on a 12 x 31 x 24 grid,  *)
(* order-preserving, from which $year and $month are read back).           *)
(***************************************************************************)
EXTENDS Integers, Sequences, FiniteSets, TLC

VARIABLES store, nextId, resp, pending

vars == <<store, nextId, resp, pending>>

\* ------------------------------------------------------------------ bounds

\* Number of documents ever inserted (ObjectIds 1..MaxRecords).
MaxRecords == 2

\* Number of list requests in progress at a time.
MaxInFlight == 1

\* ------------------------------------------------------- program constants

\* body('description').isLength({max: 200}); schema maxlength 200.
MaxDescription == 200
\* body('category').isLength({max: 50}); schema maxlength 50.
MaxCategory == 50
\* isFloat({min: 0.01}), in thousandths: 0.010.
MinAmount == 10
\* query('limit').isInt({min: 1, max: 100}).
MinLimit == 1
MaxLimit == 100
\* query('page').isInt({min: 1}).
MinPage == 1
\* const { page = 1, limit = 10 } = req.query
DefaultPage == 1
DefaultLimit == 10

\* ----------------------------------------------------------------- strings

Rep(c, n) == [i \in 1..n |-> c]

UpperCase == <<"A","B","C","D","E","F","G","H","I","J","K","L","M",
               "N","O","P","Q","R","S","T","U","V","W","X","Y","Z">>
LowerCase == <<"a","b","c","d","e","f","g","h","i","j","k","l","m",
               "n","o","p","q","r","s","t","u","v","w","x","y","z">>

\* One character folded to lower case (the regex option 'i').
LowerOf ==
    [c \in {UpperCase[i] : i \in 1..26} |-> LowerCase[CHOOSE i \in 1..26 : UpperCase[i] = c]]

Lower(c) == IF c \in DOMAIN LowerOf THEN LowerOf[c] ELSE c

RECURSIVE TrimLeft(_)
TrimLeft(s) == IF s # <<>> /\ Head(s) = " " THEN TrimLeft(Tail(s)) ELSE s

RECURSIVE TrimRight(_)
TrimRight(s) ==
    IF s # <<>> /\ s[Len(s)] = " " THEN TrimRight(SubSeq(s, 1, Len(s) - 1)) ELSE s

\* String.prototype.trim / the validator's trim() sanitizer.
Trim(s) == TrimRight(TrimLeft(s))

\* An unanchored, case-insensitive $regex match of pattern pat in s; the
\* pattern is not escaped, so "." matches any one character.
RegexMatch(pat, s) ==
    \E off \in 0..(Len(s) - Len(pat)) :
        \A i \in 1..Len(pat) :
            pat[i] = "." \/ Lower(pat[i]) = Lower(s[off + i])

\* ----------------------------------------------------------------- numbers

Digits == <<"0","1","2","3","4","5","6","7","8","9">>

DigitOf ==
    [c \in {Digits[i] : i \in 1..10} |-> (CHOOSE i \in 1..10 : Digits[i] = c) - 1]

IsDigit(c) == c \in DOMAIN DigitOf

DigitVal(c) == DigitOf[c]

IsDigits(s) == s # <<>> /\ \A i \in 1..Len(s) : IsDigit(s[i])

RECURSIVE DigitsVal(_)
DigitsVal(s) ==
    IF s = <<>> THEN 0
    ELSE 10 * DigitsVal(SubSeq(s, 1, Len(s) - 1)) + DigitVal(s[Len(s)])

HasSign(s) == s # <<>> /\ Head(s) \in {"+", "-"}

Unsigned(s) == IF HasSign(s) THEN Tail(s) ELSE s

Signed(s, n) == IF s # <<>> /\ Head(s) = "-" THEN 0 - n ELSE n

\* A JavaScript number: NaN, or the integer n.
NaN == [nan |-> TRUE, n |-> 0]
Num(n) == [nan |-> FALSE, n |-> n]

\* a < b and a >= b of two numbers: false when either is NaN.
NumLess(a, b) == ~a.nan /\ ~b.nan /\ a.n < b.n
NumGeq(a, b) == ~a.nan /\ ~b.nan /\ a.n >= b.n

\* validator.js isInt without allow_leading_zeroes: /^[-+]?[0-9]+$/
IsIntStr(s) == IsDigits(Unsigned(s))

RECURSIVE IntToStr(_)
\* String(n) of a natural number
IntToStr(n) ==
    IF n < 10 THEN <<Digits[n + 1]>> ELSE IntToStr(n \div 10) \o <<Digits[(n % 10) + 1]>>

RECURSIVE DigitPrefix(_)
DigitPrefix(s) ==
    IF s # <<>> /\ IsDigit(Head(s)) THEN <<Head(s)>> \o DigitPrefix(Tail(s)) ELSE <<>>

\* parseInt: leading white space, a sign, then the longest run of digits.
ParseIntStr(s) ==
    LET t == TrimLeft(s)
        d == DigitPrefix(Unsigned(t))
    IN IF d = <<>> THEN NaN ELSE Num(Signed(t, DigitsVal(d)))

\* ToNumber of a string, as the relational operators apply it: white space
\* trimmed, the empty string is 0, a signed run of digits is its value.
ToNumberStr(s) ==
    LET t == Trim(s)
    IN IF t = <<>> THEN Num(0)
       ELSE IF IsIntStr(t) THEN Num(Signed(t, DigitsVal(Unsigned(t))))
       ELSE NaN

CeilDiv(a, b) == (a + b - 1) \div b

\* validator.js isFloat: an optional sign, digits, an optional fraction (the
\* exponent form is left out); "", ".", "+" and "-" are no floats.
IsFloatStr(s) ==
    LET u == Unsigned(s)
        int == DigitPrefix(u)
        rest == SubSeq(u, Len(int) + 1, Len(u))
    IN /\ s \notin {<<>>, <<".">>, <<"+">>, <<"-">>}
       /\ \/ rest = <<>>
          \/ /\ Head(rest) = "."
             /\ \A i \in 2..Len(rest) : IsDigit(rest[i])

\* The first three fraction digits, as thousandths.
Thousandths(f) ==
    DigitsVal(SubSeq(f \o <<"0", "0", "0">>, 1, 3))

\* parseFloat, in thousandths: the longest prefix that reads as a decimal.
ParseFloatStr(s) ==
    LET t == TrimLeft(s)
        u == Unsigned(t)
        int == DigitPrefix(u)
        rest == SubSeq(u, Len(int) + 1, Len(u))
        frac == IF rest # <<>> /\ Head(rest) = "." THEN DigitPrefix(Tail(rest)) ELSE <<>>
    IN IF int = <<>> /\ frac = <<>> THEN NaN
       ELSE Num(Signed(t, 1000 * DigitsVal(int) + Thousandths(frac)))

\* A JSON amount is a number (in thousandths) or a string.
NumV(n) == [t |-> "num", n |-> n, s |-> <<>>]
StrV(s) == [t |-> "str", n |-> 0, s |-> s]

\* isFloat({min: 0.01}) on toString(value).
IsFloatMin(a) ==
    IF a.t = "num" THEN a.n >= MinAmount
    ELSE IsFloatStr(a.s) /\ NumGeq(ParseFloatStr(a.s), Num(MinAmount))

\* parseFloat(amount)
ParseFloat(a) == IF a.t = "num" THEN Num(a.n) ELSE ParseFloatStr(a.s)

\* ------------------------------------------------------------------- dates

HoursPerMonth == 31 * 24
HoursPerYear == 12 * HoursPerMonth

\* The Date of 00:00 UTC + h hours on day d of month m of year y.
Instant(y, m, d, h) == y * HoursPerYear + (m - 1) * HoursPerMonth + (d - 1) * 24 + h

\* $year and $month of a stored date.
Year(i) == i \div HoursPerYear
Month(i) == ((i % HoursPerYear) \div HoursPerMonth) + 1

\* Date texts: "2024-01-05", "2024-01-05T12:00:00Z", "" and a non-date.
DateOnly(y, m, d) == [k |-> "date", y |-> y, m |-> m, d |-> d, h |-> 0]
DateTime(y, m, d, h) == [k |-> "datetime", y |-> y, m |-> m, d |-> d, h |-> h]
EmptyDate == [k |-> "empty", y |-> 0, m |-> 0, d |-> 0, h |-> 0]
JunkDate == [k |-> "junk", y |-> 0, m |-> 0, d |-> 0, h |-> 0]

IsISO8601(t) == t.k \in {"date", "datetime"}

\* A Date is its time value, a number; that of an Invalid Date is NaN.
InvalidDate == NaN

\* new Date(text): a date-only text is midnight UTC of that day.
NewDate(t) ==
    IF t.k = "date" THEN Num(Instant(t.y, t.m, t.d, 0))
    ELSE IF t.k = "datetime" THEN Num(Instant(t.y, t.m, t.d, t.h))
    ELSE InvalidDate

\* -------------------------------------------------- request fields, values

\* A field of req.body or req.query: undefined, or a value.
Absent == [p |-> FALSE]
Val(v) == [p |-> TRUE, v |-> v]

\* toString(value) of a string-valued field: undefined reads as "".
TextOf(f) == IF f.p THEN f.v ELSE <<>>

TypeNames == {"Income", "Expense"}

\* An :id parameter: 24 hex digits naming ObjectId n, or another text.
ObjectId(n) == [hex |-> TRUE, n |-> n]
BadId == [hex |-> FALSE, n |-> 0]

IsMongoId(p) == p.hex

\* The routes without an :id parameter.
NoId == [hex |-> FALSE, n |-> 0 - 1]

\* ------------------------------------------------------- validation chains

FieldError(ok, param, msg) ==
    IF ok THEN <<>> ELSE <<[param |-> param, msg |-> msg]>>

\* isLength({min: lo, max: hi}) after trim()
TrimmedLength(f, lo, hi) ==
    LET n == Len(Trim(TextOf(f))) IN lo <= n /\ n <= hi

\* routes/auth.js transactionValidation: errors.array()
transactionValidation(body) ==
    FieldError(body.date.p /\ IsISO8601(body.date.v), "date", "Valid date required")
    \o FieldError(TrimmedLength(body.description, 1, MaxDescription), "description",
                  "Description is required and must be less than 200 characters")
    \o FieldError(body.amount.p /\ IsFloatMin(body.amount.v), "amount",
                  "Amount must be a positive number with at least 0.01")
    \o FieldError(TrimmedLength(body.category, 1, MaxCategory), "category",
                  "Category is required and must be less than 50 characters")
    \o FieldError(body.type.p /\ body.type.v \in TypeNames, "type",
                  "Type must be Income or Expense")

\* routes/auth.js updateTransactionValidation: optional() skips a
\* field only when it is undefined.
updateTransactionValidation(body) ==
    FieldError(body.date.p => IsISO8601(body.date.v), "date", "Valid date required")
    \o FieldError(body.description.p => TrimmedLength(body.description, 1, MaxDescription),
                  "description", "Description must be less than 200 characters")
    \o FieldError(body.amount.p => IsFloatMin(body.amount.v), "amount",
                  "Amount must be a positive number with at least 0.01")
    \o FieldError(body.category.p => TrimmedLength(body.category, 1, MaxCategory),
                  "category", "Category must be less than 50 characters")
    \o FieldError(body.type.p => body.type.v \in TypeNames, "type",
                  "Type must be Income or Expense")

\* routes/auth.js idValidation
idValidation(id) ==
    FieldError(IsMongoId(id), "id", "Invalid transaction ID")

\* The trim() sanitizers write the trimmed text back into the request.
Trimmed(f) == IF f.p THEN Val(Trim(f.v)) ELSE f

SanitizeBody(body) ==
    [body EXCEPT !.description = Trimmed(body.description),
                 !.category = Trimmed(body.category)]

\* ---------------------------------------------------------------- the model

\* The Transaction schema (README.md): the validators of the schema paths the handlers set.
SchemaValid(d) ==
    /\ ~d.date.nan
    /\ Len(d.description) >= 1 /\ Len(d.description) <= MaxDescription
    /\ NumGeq(d.amount, Num(MinAmount))
    /\ Len(d.category) >= 1 /\ Len(d.category) <= MaxCategory
    /\ d.type \in TypeNames

\* The document as stored: dates and numbers cast to their schema types.
Cast(d) == [d EXCEPT !.date = d.date.n, !.amount = d.amount.n]

\* findOne with the owner key left out of the query.
FindOneAnyOwner(st, id, userId) ==
    {d \in st : d.id = id.n}

\* Transaction.findOne({_id, userId})
FindOne(st, id, userId) ==
    {d \in st : d.id = id.n /\ d.userId = userId}

\* ---------------------------------------------------------------- responses

NoResp == [op |-> "none"]

Idle == resp.op = "none"

ValidationFailed(errs) ==
    [status |-> 400, success |-> FALSE, message |-> "Validation failed", errors |-> errs]

NotFound ==
    [status |-> 404, success |-> FALSE, message |-> "Transaction not found"]

ServerError(msg) ==
    [status |-> 500, success |-> FALSE, message |-> msg]

\* res.json({success: true, data}): status 200, no message.
OkData(data) ==
    [status |-> 200, success |-> TRUE, data |-> data]

Ok(status, msg, data) ==
    [status |-> status, success |-> TRUE, message |-> msg, data |-> data]

\* What a handler did: the store it leaves and the response it sends.
Outcome(st, out) == [store |-> st, out |-> out]

\* ------------------------------------------------- single-record handlers

\* getTransaction: GET /api/transactions/:id
getTransaction(st, user, id) ==
    LET errs == idValidation(id)
        found == FindOne(st, id, user)
    IN IF errs # <<>> THEN Outcome(st, ValidationFailed(errs))
       ELSE IF found = {} THEN Outcome(st, NotFound)
       ELSE Outcome(st, OkData([transaction |-> CHOOSE d \in found : TRUE]))

\* new Transaction({...}) of addTransaction, with _id = id
NewTransaction(id, user, body) ==
    [id |-> id,
     userId |-> user,
     date |-> NewDate(body.date.v),
     description |-> Trim(body.description.v),
     amount |-> ParseFloat(body.amount.v),
     category |-> Trim(body.category.v),
     type |-> body.type.v]

\* addTransaction: POST /api/transactions
addTransaction(st, id, user, body) ==
    LET errs == transactionValidation(body)
        doc == NewTransaction(id, user, SanitizeBody(body))
    IN IF errs # <<>> THEN Outcome(st, ValidationFailed(errs))
       ELSE IF ~SchemaValid(doc)
            THEN Outcome(st, ServerError("Server error while adding transaction"))
       ELSE Outcome(st \cup {Cast(doc)},
                    Ok(201, "Transaction added successfully", [transaction |-> Cast(doc)]))

\* The truthiness tests `if (date)`, `if (description)`, ... of updateTransaction.
TruthyDate(f) == f.p /\ f.v.k # "empty"
TruthyText(f) == f.p /\ f.v # <<>>
TruthyAmount(f) == f.p /\ (IF f.v.t = "num" THEN f.v.n # 0 ELSE f.v.s # <<>>)
TruthyType(f) == f.p /\ f.v # ""

\* updateData without the line that copies type.
UpdateDataWithoutType(body) ==
    [date |-> IF TruthyDate(body.date) THEN Val(NewDate(body.date.v)) ELSE Absent,
     description |-> IF TruthyText(body.description)
                     THEN Val(Trim(body.description.v)) ELSE Absent,
     amount |-> IF TruthyAmount(body.amount) THEN Val(ParseFloat(body.amount.v)) ELSE Absent,
     category |-> IF TruthyText(body.category) THEN Val(Trim(body.category.v)) ELSE Absent,
     type |-> Absent]

\* updateData of updateTransaction
UpdateData(body) ==
    [date |-> IF TruthyDate(body.date) THEN Val(NewDate(body.date.v)) ELSE Absent,
     description |-> IF TruthyText(body.description)
                     THEN Val(Trim(body.description.v)) ELSE Absent,
     amount |-> IF TruthyAmount(body.amount) THEN Val(ParseFloat(body.amount.v)) ELSE Absent,
     category |-> IF TruthyText(body.category) THEN Val(Trim(body.category.v)) ELSE Absent,
     type |-> IF TruthyType(body.type) THEN Val(body.type.v) ELSE Absent]

\* runValidators: true -- the schema validators of the paths being set.
UpdateValid(u) ==
    /\ u.date.p => ~u.date.v.nan
    /\ u.description.p => Len(u.description.v) <= MaxDescription
    /\ u.amount.p => NumGeq(u.amount.v, Num(MinAmount))
    /\ u.category.p => Len(u.category.v) <= MaxCategory
    /\ u.type.p => u.type.v \in TypeNames

\* The document after $set of updateData.
ApplyUpdate(d, u) ==
    [id |-> d.id,
     userId |-> d.userId,
     date |-> IF u.date.p THEN u.date.v.n ELSE d.date,
     description |-> IF u.description.p THEN u.description.v ELSE d.description,
     amount |-> IF u.amount.p THEN u.amount.v.n ELSE d.amount,
     category |-> IF u.category.p THEN u.category.v ELSE d.category,
     type |-> IF u.type.p THEN u.type.v ELSE d.type]

\* updateTransaction: PATCH /api/transactions/:id
updateTransaction(st, user, id, body) ==
    LET errs == idValidation(id) \o updateTransactionValidation(body)
        u == UpdateData(SanitizeBody(body))
        found == FindOne(st, id, user)
        old == CHOOSE d \in found : TRUE
        new == ApplyUpdate(old, u)
    IN IF errs # <<>> THEN Outcome(st, ValidationFailed(errs))
       ELSE IF ~UpdateValid(u)
            THEN Outcome(st, ServerError("Server error while updating transaction"))
       ELSE IF found = {} THEN Outcome(st, NotFound)
       ELSE Outcome((st \ {old}) \cup {new},
                    Ok(200, "Transaction updated successfully", [transaction |-> new]))

\* deleteTransaction with the record looked up by its id alone.
deleteTransactionById(st, user, id) ==
    LET errs == idValidation(id)
        found == FindOneAnyOwner(st, id, user)
        old == CHOOSE d \in found : TRUE
    IN IF errs # <<>> THEN Outcome(st, ValidationFailed(errs))
       ELSE IF found = {} THEN Outcome(st, NotFound)
       ELSE Outcome(st \ {old},
                    Ok(200, "Transaction deleted successfully", [transaction |-> old]))

\* deleteTransaction: DELETE /api/transactions/:id
deleteTransaction(st, user, id) ==
    LET errs == idValidation(id)
        found == FindOne(st, id, user)
        old == CHOOSE d \in found : TRUE
    IN IF errs # <<>> THEN Outcome(st, ValidationFailed(errs))
       ELSE IF found = {} THEN Outcome(st, NotFound)
       ELSE Outcome(st \ {old},
                    Ok(200, "Transaction deleted successfully", [transaction |-> old]))

\* ------------------------------------------------------------ list handler

\* parseInt(v) and ToNumber(v) of a query value: the default is a number,
\* a supplied parameter is a string.
ParseInt(v) == IF v.t = "num" THEN Num(v.n) ELSE ParseIntStr(v.s)
ToNumber(v) == IF v.t = "num" THEN Num(v.n) ELSE ToNumberStr(v.s)

\* isInt({min: lo}) and isInt({min: lo, max: hi}): the pattern, then the
\* bounds on the number.
IsIntMin(s, lo) == IsIntStr(s) /\ NumGeq(ToNumberStr(s), Num(lo))
IsIntRange(s, lo, hi) == IsIntMin(s, lo) /\ NumGeq(Num(hi), ToNumberStr(s))

\* routes/auth.js queryValidation
queryValidation(q) ==
    FieldError(q.startDate.p => IsISO8601(q.startDate.v), "startDate",
               "Valid start date required")
    \o FieldError(q.endDate.p => IsISO8601(q.endDate.v), "endDate", "Valid end date required")
    \o FieldError(q.category.p => Len(Trim(q.category.v)) <= MaxCategory, "category",
                  "Category too long")
    \o FieldError(q.type.p => q.type.v \in TypeNames, "type", "Type must be Income or Expense")
    \o FieldError(q.page.p => IsIntMin(q.page.v, MinPage), "page",
                  "Page must be a positive integer")
    \o FieldError(q.limit.p => IsIntRange(q.limit.v, MinLimit, MaxLimit), "limit",
                  "Limit must be between 1 and 100")

SanitizeQuery(q) == [q EXCEPT !.category = Trimmed(q.category)]

\* The filter object of getTransactions, getTransactionStats and
\* getCategoryStats: userId always, the other keys when the parameter is truthy.
Filter(user, startDate, endDate, category, type, description) ==
    [userId |-> user,
     gte |-> IF TruthyDate(startDate) THEN Val(NewDate(startDate.v)) ELSE Absent,
     lte |-> IF TruthyDate(endDate) THEN Val(NewDate(endDate.v)) ELSE Absent,
     category |-> IF TruthyText(category) THEN category ELSE Absent,
     type |-> IF TruthyType(type) THEN type ELSE Absent,
     description |-> IF TruthyText(description) THEN description ELSE Absent]

\* Matches with the owner key left out of the filter.
MatchesAnyOwner(d, f) ==
    /\ f.gte.p => NumGeq(Num(d.date), f.gte.v)
    /\ f.lte.p => NumGeq(f.lte.v, Num(d.date))
    /\ f.category.p => RegexMatch(f.category.v, d.category)
    /\ f.type.p => d.type = f.type.v
    /\ f.description.p => RegexMatch(f.description.v, d.description)

\* Matches with $gt in place of $gte.
MatchesAfterStart(d, f) ==
    /\ d.userId = f.userId
    /\ f.gte.p => NumLess(f.gte.v, Num(d.date))
    /\ f.lte.p => NumGeq(f.lte.v, Num(d.date))
    /\ f.category.p => RegexMatch(f.category.v, d.category)
    /\ f.type.p => d.type = f.type.v
    /\ f.description.p => RegexMatch(f.description.v, d.description)

\* A document matches a filter: every key of the filter holds of it.
Matches(d, f) ==
    /\ d.userId = f.userId
    /\ f.gte.p => NumGeq(Num(d.date), f.gte.v)
    /\ f.lte.p => NumGeq(f.lte.v, Num(d.date))
    /\ f.category.p => RegexMatch(f.category.v, d.category)
    /\ f.type.p => d.type = f.type.v
    /\ f.description.p => RegexMatch(f.description.v, d.description)

\* Transaction.find(filter), before sort, skip and limit.
Find(st, f) == {d \in st : Matches(d, f)}

\* Transaction.countDocuments(filter)
CountDocuments(st, f) == Cardinality(Find(st, f))

\* The sequences that list every element of S once.
Orderings(S) ==
    {o \in [1..Cardinality(S) -> S] : \A i, j \in 1..Cardinality(S) : i # j => o[i] # o[j]}

\* sortObj[sortBy] = sortOrder === 'desc' ? -1 : 1
SortKey(d, sortBy) ==
    IF sortBy = "date" THEN d.date
    ELSE IF sortBy = "amount" THEN d.amount
    ELSE 0

\* .sort(sortObj): every order the store may return; equal keys come in any order.
Sorted(S, sortBy, dir) ==
    {o \in Orderings(S) :
        \A i \in 1..(Len(o) - 1) :
            IF dir = "desc"
            THEN SortKey(o[i], sortBy) >= SortKey(o[i + 1], sortBy)
            ELSE SortKey(o[i], sortBy) <= SortKey(o[i + 1], sortBy)}

Min(a, b) == IF a < b THEN a ELSE b

\* .skip(skip).limit(limit)
SkipLimit(o, skip, limit) == SubSeq(o, skip + 1, Min(Len(o), skip + limit))

\* a < b on texts, as < compares two strings: by the first differing character.
TextLess(a, b) ==
    \E k \in 1..(Len(b)) :
        /\ \A i \in 1..(k - 1) : i <= Len(a) /\ a[i] = b[i]
        /\ k > Len(a) \/ DigitVal(a[k]) < DigitVal(b[k])

\* page < totalPages with both operands compared as texts.
PageBeforeAsText(page, totalPages) ==
    TextLess(IF page.t = "num" THEN IntToStr(page.n) ELSE page.s, IntToStr(totalPages))

\* page < totalPages: the relational operator turns a string operand into a number.
PageBefore(page, totalPages) == NumLess(ToNumber(page), Num(totalPages))

\* page > 1
PageAfterFirst(page) == NumLess(Num(1), ToNumber(page))

\* Math.ceil(totalTransactions / parseInt(limit))
TotalPages(total, limit) == CeilDiv(total, limit)

\* The pagination object of getTransactions.
Pagination(page, limit, total) ==
    [currentPage |-> ParseInt(page).n,
     totalPages |-> TotalPages(total, ParseInt(limit).n),
     totalTransactions |-> total,
     hasNextPage |-> PageBefore(page, TotalPages(total, ParseInt(limit).n)),
     hasPrevPage |-> PageAfterFirst(page)]

\* const { page = 1, limit = 10, sortBy = 'date', sortOrder = 'desc' } = req.query
PageOf(q) == IF q.page.p THEN StrV(q.page.v) ELSE NumV(DefaultPage)
LimitOf(q) == IF q.limit.p THEN StrV(q.limit.v) ELSE NumV(DefaultLimit)
SortByOf(q) == IF q.sortBy.p THEN q.sortBy.v ELSE "date"
SortOrderOf(q) == IF q.sortOrder.p /\ q.sortOrder.v # "desc" THEN "asc" ELSE "desc"

ListFilter(user, q) ==
    Filter(user, q.startDate, q.endDate, q.category, q.type, q.description)

\* getTransactions: GET /api/transactions, the store answering find with
\* the order `found`.
getTransactions(st, user, query, found) ==
    LET errs == queryValidation(query)
        q == SanitizeQuery(query)
        f == ListFilter(user, q)
        skip == (ParseInt(PageOf(q)).n - 1) * ParseInt(LimitOf(q)).n
        transactions == SkipLimit(found, skip, ParseInt(LimitOf(q)).n)
    IN IF errs # <<>> THEN Outcome(st, ValidationFailed(errs))
       ELSE Outcome(st, OkData(
                [transactions |-> transactions,
                 pagination |-> Pagination(PageOf(q), LimitOf(q), CountDocuments(st, f))]))

\* The orders in which find(filter).sort(sortObj) may answer a list request.
FindSorted(st, user, query) ==
    LET q == SanitizeQuery(query)
    IN IF queryValidation(query) # <<>> THEN {<<>>}
       ELSE Sorted(Find(st, ListFilter(user, q)), SortByOf(q), SortOrderOf(q))

\* ------------------------------------------------------------- aggregation

RECURSIVE SumAmount(_)
\* { $sum: '$amount' } over the documents of a group
SumAmount(S) ==
    IF S = {} THEN 0
    ELSE LET d == CHOOSE x \in S : TRUE IN d.amount + SumAmount(S \ {d})

\* { $avg: '$amount' }: the quotient total / count, kept as a fraction.
Average(total, count) == [num |-> total, den |-> count]

\* The number 0 where an average is expected.
Zero == [num |-> 0, den |-> 1]

\* One output document of a $group stage: _id, total, count, average.
Group(id, S) ==
    [id |-> id,
     total |-> SumAmount(S),
     count |-> Cardinality(S),
     average |-> Average(SumAmount(S), Cardinality(S))]

\* $group: { _id: '$type', ... }
GroupByType(S) ==
    {Group(t, {d \in S : d.type = t}) : t \in {d.type : d \in S}}

\* $group: { _id: { category: '$category', type: '$type' }, ... }
GroupByCategory(S) ==
    {Group(k, {d \in S : d.category = k.category /\ d.type = k.type}) :
        k \in {[category |-> d.category, type |-> d.type] : d \in S}}

\* $group: { _id: { year: {$year: '$date'}, month: {$month: '$date'}, type: '$type' }, ... }
GroupByMonth(S) ==
    {Group(k, {d \in S : Year(d.date) = k.year /\ Month(d.date) = k.month /\ d.type = k.type}) :
        k \in {[year |-> Year(d.date), month |-> Month(d.date), type |-> d.type] : d \in S}}

\* The sort with { total: 1 }.
SortByTotalAsc(G) ==
    {o \in Orderings(G) : \A i \in 1..(Len(o) - 1) : o[i].total <= o[i + 1].total}

\* { $sort: { total: -1 } }: every order the stage may produce.
SortByTotalDesc(G) ==
    {o \in Orderings(G) : \A i \in 1..(Len(o) - 1) : o[i].total >= o[i + 1].total}

\* { $sort: { '_id.year': 1, '_id.month': 1 } }: every order the stage may produce.
SortByYearMonth(G) ==
    {o \in Orderings(G) :
        \A i \in 1..(Len(o) - 1) :
            \/ o[i].id.year < o[i + 1].id.year
            \/ o[i].id.year = o[i + 1].id.year /\ o[i].id.month <= o[i + 1].id.month}

\* stats.find(s => s._id === type)?.total, ?.count and ?.average: the value
\* of the group of that type, undefined when there is none.
TotalOf(stats, type) ==
    IF \E g \in stats : g.id = type THEN Val((CHOOSE g \in stats : g.id = type).total)
    ELSE Absent
CountOf(stats, type) ==
    IF \E g \in stats : g.id = type THEN Val((CHOOSE g \in stats : g.id = type).count)
    ELSE Absent
AverageOf(stats, type) ==
    IF \E g \in stats : g.id = type THEN Val((CHOOSE g \in stats : g.id = type).average)
    ELSE Absent

\* x without the || 0.
OrUndefined(x) == x

\* x || 0 of a number and of an average: 0 for undefined and for 0.
OrZero(x) == IF x.p /\ x.v # 0 THEN x ELSE Val(0)
OrZeroAverage(x) == IF x.p /\ x.v.num # 0 THEN x ELSE Val(Zero)

\* a - b and a + b in the response: NaN, which JSON writes as null, when an
\* operand is undefined.
Minus(a, b) == IF a.p /\ b.p THEN Val(a.v - b.v) ELSE Absent
Plus(a, b) == IF a.p /\ b.p THEN Val(a.v + b.v) ELSE Absent

\* getTransactionStats: GET /api/transactions/stats.  Each field of data is
\* Val(number), or Absent when the JSON carries no number there.
getTransactionStats(st, user, query) ==
    LET f == Filter(user, query.startDate, query.endDate, Absent, Absent, Absent)
        stats == GroupByType(Find(st, f))
        totalIncome == OrZero(TotalOf(stats, "Income"))
        totalExpense == OrZero(TotalOf(stats, "Expense"))
        incomeCount == OrZero(CountOf(stats, "Income"))
        expenseCount == OrZero(CountOf(stats, "Expense"))
    IN Outcome(st, OkData(
            [totalIncome |-> totalIncome,
             totalExpense |-> totalExpense,
             netAmount |-> Minus(totalIncome, totalExpense),
             incomeCount |-> incomeCount,
             expenseCount |-> expenseCount,
             totalTransactions |-> Plus(incomeCount, expenseCount),
             averageIncome |-> OrZeroAverage(AverageOf(stats, "Income")),
             averageExpense |-> OrZeroAverage(AverageOf(stats, "Expense"))]))

\* The filter of getCategoryStats.
CategoryFilter(user, query) ==
    Filter(user, query.startDate, query.endDate, Absent, query.type, Absent)

\* categoryStats.map(stat => ({category, type, total, count, average}))
CategoryEntry(g) ==
    [category |-> g.id.category, type |-> g.id.type, total |-> g.total,
     count |-> g.count, average |-> g.average]

\* getCategoryStats: GET /api/transactions/stats/categories, the aggregation
\* answering in the order categoryStats.
getCategoryStats(st, user, query, categoryStats) ==
    Outcome(st, OkData([i \in 1..Len(categoryStats) |-> CategoryEntry(categoryStats[i])]))

\* The orders in which the category aggregation may answer.
CategoryAggregate(st, user, query) ==
    SortByTotalDesc(GroupByCategory(Find(st, CategoryFilter(user, query))))

\* s.padStart(width, c)
PadStart(s, width, c) == Rep(c, width - Len(s)) \o s

\* `${stat._id.year}-${stat._id.month.toString().padStart(2, '0')}`
MonthKey(g) == IntToStr(g.id.year) \o <<"-">> \o PadStart(IntToStr(g.id.month), 2, "0")

\* The entry groupedStats gets for a key it does not hold yet.
NewMonth(g) ==
    [year |-> g.id.year, month |-> g.id.month,
     income |-> 0, expense |-> 0, incomeCount |-> 0, expenseCount |-> 0]

\* WithGroup with the income fields written in both branches.
WithGroupAsIncome(e, g) == [e EXCEPT !.income = g.total, !.incomeCount = g.count]

\* The entry after the total and count of one group are stored in it.
WithGroup(e, g) ==
    IF g.id.type = "Income"
    THEN [e EXCEPT !.income = g.total, !.incomeCount = g.count]
    ELSE [e EXCEPT !.expense = g.total, !.expenseCount = g.count]

\* One step of monthlyStats.reduce: acc is the object groupedStats, as its
\* (key, value) pairs in insertion order.
ReduceStep(acc, g) ==
    IF \E i \in 1..Len(acc) : acc[i].key = MonthKey(g)
    THEN [i \in 1..Len(acc) |->
            IF acc[i].key = MonthKey(g)
            THEN [key |-> acc[i].key, value |-> WithGroup(acc[i].value, g)]
            ELSE acc[i]]
    ELSE Append(acc, [key |-> MonthKey(g), value |-> WithGroup(NewMonth(g), g)])

RECURSIVE Reduce(_, _)
\* monthlyStats.reduce(..., {})
Reduce(acc, stats) ==
    IF stats = <<>> THEN acc ELSE Reduce(ReduceStep(acc, Head(stats)), Tail(stats))

\* Object.values(groupedStats): the keys hold a "-", so none is an array
\* index and the values come in insertion order.
ObjectValues(acc) == [i \in 1..Len(acc) |-> acc[i].value]

\* .map(stat => ({...stat, net, totalTransactions}))
MonthEntry(e) ==
    [year |-> e.year, month |-> e.month, income |-> e.income, expense |-> e.expense,
     incomeCount |-> e.incomeCount, expenseCount |-> e.expenseCount,
     net |-> e.income - e.expense,
     totalTransactions |-> e.incomeCount + e.expenseCount]

\* The filter of getMonthlyStats: new Date(`${year}-01-01`) to new Date(`${year}-12-31`).
MonthlyFilter(user, query) ==
    IF TruthyText(query.year)
    THEN [Filter(user, Absent, Absent, Absent, Absent, Absent) EXCEPT
            !.gte = Val(NewDate(DateOnly(DigitsVal(query.year.v), 1, 1))),
            !.lte = Val(NewDate(DateOnly(DigitsVal(query.year.v), 12, 31)))]
    ELSE Filter(user, Absent, Absent, Absent, Absent, Absent)

\* getMonthlyStats: GET /api/transactions/stats/monthly, the aggregation
\* answering in the order monthlyStats.
getMonthlyStats(st, user, query, monthlyStats) ==
    LET values == ObjectValues(Reduce(<<>>, monthlyStats))
    IN Outcome(st, OkData([i \in 1..Len(values) |-> MonthEntry(values[i])]))

\* The orders in which the monthly aggregation may answer.
MonthlyAggregate(st, user, query) ==
    SortByYearMonth(GroupByMonth(Find(st, MonthlyFilter(user, query))))

\* ------------------------------------------------------------------ actions

\* req.user.userId, as the authentication middleware sets it.
Users == {"u1", "u2"}


\* A request: the operation, the authenticated user and what the client sent.
Request(op, user, id, input) == [op |-> op, user |-> user, id |-> id, input |-> input]

\* The handler ran to its res.json: the store it left, the response it sent.
Handled(req, o) ==
    /\ Idle
    /\ store' = o.store
    /\ resp' = [op |-> req.op, req |-> req, out |-> o.out]

Init ==
    /\ store = {}
    /\ nextId = 1
    /\ resp = NoResp
    /\ pending = {}

\* The response has gone out; the next request is taken.
EndRequest ==
    /\ ~Idle
    /\ resp' = NoResp
    /\ UNCHANGED <<store, nextId, pending>>

\* Each handler is an action over the requests it is tried on: the
\* authenticated user and the parameters, body or query the client sends.

GetTransaction(Ids) ==
    /\ Idle
    /\ \E user \in Users, id \in Ids :
          Handled(Request("get", user, id, Absent), getTransaction(store, user, id))
    /\ UNCHANGED <<nextId, pending>>

AddTransaction(Bodies) ==
    /\ Idle
    /\ nextId <= MaxRecords
    /\ \E user \in Users, body \in Bodies :
          Handled(Request("add", user, NoId, body), addTransaction(store, nextId, user, body))
    /\ nextId' = IF store' # store THEN nextId + 1 ELSE nextId
    /\ UNCHANGED pending

UpdateTransaction(Updates) ==
    /\ Idle
    /\ \E user \in Users, r \in Updates :
          Handled(Request("update", user, r[1], r[2]),
                  updateTransaction(store, user, r[1], r[2]))
    /\ UNCHANGED <<nextId, pending>>

DeleteTransaction(Ids) ==
    /\ Idle
    /\ \E user \in Users, id \in Ids :
          Handled(Request("delete", user, id, Absent), deleteTransaction(store, user, id))
    /\ UNCHANGED <<nextId, pending>>

\* getTransactions up to its first await: the request is refused by its
\* validation chain, or find(filter).sort().skip().limit() is answered and
\* the handler waits for countDocuments.
GetTransactionsFind(Queries) ==
    /\ Idle
    /\ Cardinality(pending) < MaxInFlight
    /\ \E user \in Users, query \in Queries :
          IF queryValidation(query) # <<>>
          THEN /\ Handled(Request("list", user, NoId, query),
                          getTransactions(store, user, query, <<>>))
               /\ UNCHANGED pending
          ELSE /\ \E found \in FindSorted(store, user, query) :
                     pending' = pending \cup {[user |-> user, query |-> query, found |-> found]}
               /\ UNCHANGED <<store, resp>>
    /\ UNCHANGED nextId

\* getTransactions from countDocuments(filter) to res.json: the count is
\* taken from the store as it is now, the page is the one found before.
GetTransactionsCount ==
    /\ Idle
    /\ \E p \in pending :
          /\ Handled(Request("list", p.user, NoId, p.query),
                     getTransactions(store, p.user, p.query, p.found))
          /\ pending' = pending \ {p}
    /\ UNCHANGED nextId

GetTransactionStats(Queries) ==
    /\ Idle
    /\ \E user \in Users, query \in Queries :
          Handled(Request("stats", user, NoId, query),
                  getTransactionStats(store, user, query))
    /\ UNCHANGED <<nextId, pending>>

GetCategoryStats(Queries) ==
    /\ Idle
    /\ \E user \in Users, query \in Queries :
          \E categoryStats \in CategoryAggregate(store, user, query) :
              Handled(Request("categories", user, NoId, query),
                      getCategoryStats(store, user, query, categoryStats))
    /\ UNCHANGED <<nextId, pending>>

GetMonthlyStats(Queries) ==
    /\ Idle
    /\ \E user \in Users, query \in Queries :
          \E monthlyStats \in MonthlyAggregate(store, user, query) :
              Handled(Request("monthly", user, NoId, query),
                      getMonthlyStats(store, user, query, monthlyStats))
    /\ UNCHANGED <<nextId, pending>>

\* ------------------------------------------------------------------- inputs

\* Every ObjectId the store has handed out or will, one it never will, and a
\* text that is no ObjectId.
IdParams == {ObjectId(n) : n \in 1..(MaxRecords + 1)} \cup {BadId}

Fields == {"date", "description", "amount", "category", "type"}

EmptyBody == [f \in Fields |-> Absent]

BodyA ==
    [date |-> Val(DateOnly(2024, 1, 5)),
     description |-> Val(<<" ", "p", "a", "y", " ">>),
     amount |-> Val(StrV(<<"1", "0", "0">>)),
     category |-> Val(<<"J", "o", "b">>),
     type |-> Val("Income")]

BodyB ==
    [date |-> Val(DateTime(2024, 1, 10, 12)),
     description |-> Val(Rep("x", MaxDescription)),
     amount |-> Val(NumV(MinAmount)),
     category |-> Val(Rep("y", MaxCategory)),
     type |-> Val("Expense")]

\* Field values a validation chain rejects.
BadValues ==
    [date |-> {Val(JunkDate), Val(EmptyDate)},
     description |-> {Val(<<" ", " ">>), Val(Rep("x", MaxDescription + 1))},
     amount |-> {Val(StrV(<<"0", ".", "0", "0", "9">>)), Val(NumV(0))},
     category |-> {Val(<<>>), Val(Rep("y", MaxCategory + 1))},
     type |-> {Val("Foo"), Val("")}]

\* src with one field made bad.
Spoiled(src) ==
    UNION {{[src EXCEPT ![f] = v] : v \in BadValues[f]} : f \in Fields}

\* The bodies with at most two fields, taken from src.
Sparse(src) ==
    {[EmptyBody EXCEPT ![f] = src[f], ![g] = src[g]] : f \in Fields, g \in Fields}

AddBodies ==
    {BodyA, BodyB} \cup Spoiled(BodyA) \cup {[BodyA EXCEPT ![f] = Absent] : f \in Fields}

UpdateBodies ==
    {EmptyBody, BodyA, BodyB} \cup Sparse(BodyB) \cup Spoiled(EmptyBody)

\* The documents the list requests are tried on.
ListBodies ==
    {[date |-> Val(DateOnly(2024, 1, 5)), description |-> Val(<<"p", "a", "y">>),
      amount |-> Val(StrV(<<"1", "0", "0">>)), category |-> Val(<<"J", "o", "b">>),
      type |-> Val("Income")],
     [date |-> Val(DateTime(2024, 1, 10, 12)), description |-> Val(<<"P", "a", "y", "d", "a", "y">>),
      amount |-> Val(NumV(40000)), category |-> Val(<<"F", "o", "o", "d">>),
      type |-> Val("Expense")]}

\* The query strings of the list requests: each parameter left out, valid,
\* or rejected by queryValidation.
ListQueries ==
    {[startDate |-> sd, endDate |-> ed, category |-> c, type |-> t, description |-> ds,
      page |-> pg, limit |-> lm, sortBy |-> sb[1], sortOrder |-> sb[2], year |-> Absent] :
        sd \in {Absent, Val(DateOnly(2024, 1, 10)), Val(JunkDate)},
        ed \in {Absent, Val(DateOnly(2024, 1, 10))},
        c \in {Absent, Val(<<" ", ".", "o", " ">>)},
        t \in {Absent, Val("Expense"), Val("Foo")},
        ds \in {Absent, Val(<<"P", "A", "Y">>)},
        pg \in {Absent, Val(<<"2">>), Val(<<"1", "0">>), Val(<<"0">>)},
        lm \in {Absent, Val(<<"1">>), Val(<<"2">>), Val(<<"1", "0", "1">>)},
        sb \in {<<Absent, Absent>>, <<Val("amount"), Val("asc")>>}}

EmptyQuery ==
    [startDate |-> Absent, endDate |-> Absent, category |-> Absent, type |-> Absent,
     description |-> Absent, page |-> Absent, limit |-> Absent, sortBy |-> Absent,
     sortOrder |-> Absent, year |-> Absent]

\* The documents the statistics are tried on, and the updates made to them.
StatsBodies ==
    {[date |-> Val(DateOnly(2024, 1, 5)), description |-> Val(<<"p", "a", "y">>),
      amount |-> Val(StrV(<<"1", "0", "0">>)), category |-> Val(<<"J", "o", "b">>),
      type |-> Val("Income")],
     [date |-> Val(DateTime(2024, 1, 10, 12)), description |-> Val(<<"r", "e", "n", "t">>),
      amount |-> Val(StrV(<<"4", "0">>)), category |-> Val(<<"f", "o", "o", "d">>),
      type |-> Val("Expense")],
     [date |-> Val(DateTime(2023, 12, 31, 12)), description |-> Val(<<"p", "a", "y">>),
      amount |-> Val(NumV(40000)), category |-> Val(<<"J", "o", "b">>),
      type |-> Val("Income")]}

StatsUpdates ==
    {[EmptyBody EXCEPT !.amount = Val(StrV(<<"4", "0">>))],
     [EmptyBody EXCEPT !.date = Val(DateOnly(2024, 2, 1)), !.type = Val("Expense")]}

StoredIds == {ObjectId(n) : n \in 1..MaxRecords}

\* Query strings of the statistics routes; "" as a date, "Foo" as a type and
\* "0" as a page are rejected by queryValidation.
TypeStatsQueries ==
    {[EmptyQuery EXCEPT !.startDate = sd, !.endDate = ed, !.type = t] :
        sd \in {Absent, Val(DateOnly(2024, 1, 5)), Val(EmptyDate)},
        ed \in {Absent, Val(DateOnly(2024, 1, 10)), Val(DateOnly(2024, 1, 31))},
        t \in {Absent, Val("Foo")}}

CategoryStatsQueries ==
    {[EmptyQuery EXCEPT !.startDate = sd, !.endDate = ed, !.type = t] :
        sd \in {Absent, Val(DateOnly(2024, 1, 5))},
        ed \in {Absent, Val(DateOnly(2024, 1, 10))},
        t \in {Absent, Val("Income"), Val("Foo")}}

MonthlyStatsQueries ==
    {[EmptyQuery EXCEPT !.year = y, !.page = pg] :
        y \in {Absent, Val(<<"2", "0", "2", "4">>), Val(<<"2", "0", "2", "3">>)},
        pg \in {Absent, Val(<<"0">>)}}

\* The list requests tried together with every other operation.
PageQueries ==
    {[EmptyQuery EXCEPT !.type = t, !.page = pg, !.limit = lm] :
        t \in {Absent, Val("Expense")},
        pg \in {Absent, Val(<<"2">>)},
        lm \in {Absent, Val(<<"1">>)}}

\* An update names a document id with any body, or no ObjectId at all.
UpdateRequests ==
    {r \in IdParams \X UpdateBodies : IsMongoId(r[1]) \/ r[2] \in {EmptyBody, BodyB}}

\* ----------------------------------------------------------- specifications

NextCrud ==
    \/ AddTransaction(AddBodies)
    \/ GetTransaction(IdParams)
    \/ UpdateTransaction(UpdateRequests)
    \/ DeleteTransaction(IdParams)
    \/ EndRequest

SpecCrud == Init /\ [][NextCrud]_vars

NextList ==
    \/ AddTransaction(ListBodies)
    \/ GetTransactionsFind(ListQueries)
    \/ GetTransactionsCount
    \/ EndRequest

SpecList == Init /\ [][NextList]_vars

NextStats ==
    \/ AddTransaction(StatsBodies)
    \/ UpdateTransaction(StoredIds \X StatsUpdates)
    \/ DeleteTransaction(StoredIds)
    \/ GetTransactionStats(TypeStatsQueries)
    \/ GetCategoryStats(CategoryStatsQueries)
    \/ GetMonthlyStats(MonthlyStatsQueries)
    \/ EndRequest

SpecStats == Init /\ [][NextStats]_vars

\* Every operation, by either user, in every order.
NextAll ==
    \/ AddTransaction(StatsBodies)
    \/ UpdateTransaction(StoredIds \X StatsUpdates)
    \/ DeleteTransaction(StoredIds)
    \/ GetTransaction(StoredIds)
    \/ GetTransactionsFind(PageQueries)
    \/ GetTransactionsCount
    \/ GetTransactionStats(TypeStatsQueries)
    \/ GetCategoryStats(CategoryStatsQueries)
    \/ GetMonthlyStats(MonthlyStatsQueries)
    \/ EndRequest

SpecAll == Init /\ [][NextAll]_vars

\* ---------------------------------------------------------------- properties

\* The last request was op and was answered with success.
Answered(op) == resp.op = op /\ resp.out.status = 200

\* The instant a date text names.
InstantOf(t) == Instant(t.y, t.m, t.d, t.h)

\* The date of d lies in the optional range [startDate, endDate] of q.
InRange(d, q) ==
    /\ (q.startDate.p /\ IsISO8601(q.startDate.v)) => d.date >= InstantOf(q.startDate.v)
    /\ (q.endDate.p /\ IsISO8601(q.endDate.v)) => d.date <= InstantOf(q.endDate.v)

\* The documents of a user, and those in the range of q.
Owned(user) == {d \in store : d.userId = user}
OwnedInRange(user, q) == {d \in Owned(user) : InRange(d, q)}

OfType(S, type) == {d \in S : d.type = type}

RECURSIVE AmountsUpTo(_, _)
AmountsUpTo(S, n) ==
    IF n = 0 THEN 0
    ELSE AmountsUpTo(S, n - 1)
         + (IF \E d \in S : d.id = n THEN (CHOOSE d \in S : d.id = n).amount ELSE 0)

\* The sum of the amounts of the documents of S.
SumOf(S) == AmountsUpTo(S, nextId)

\* C4: in every type-statistics response every field is a number,
\* netAmount = totalIncome - totalExpense, and a type without a record of
\* the owner in the requested range has total, count and average 0.
C4_TypeStatsZeroDefaults ==
    Answered("stats") =>
        LET data == resp.out.data
            S == OwnedInRange(resp.req.user, resp.req.input)
        IN /\ \A f \in DOMAIN data : data[f].p
           /\ data.netAmount.v = data.totalIncome.v - data.totalExpense.v
           /\ OfType(S, "Income") = {} =>
                /\ data.totalIncome = Val(0)
                /\ data.incomeCount = Val(0)
                /\ data.averageIncome = Val(Zero)
           /\ OfType(S, "Expense") = {} =>
                /\ data.totalExpense = Val(0)
                /\ data.expenseCount = Val(0)
                /\ data.averageExpense = Val(Zero)

\* The owner has income, but none in the requested range, and has expenses
\* in it.
C4_Witness ==
    /\ Answered("stats")
    /\ OfType(Owned(resp.req.user), "Income") # {}
    /\ resp.req.input.startDate.p
    /\ resp.out.data.totalIncome = Val(0)
    /\ resp.out.data.averageIncome = Val(Zero)
    /\ resp.out.data.totalExpense.v > 0

\* C5: the type statistics of a user report the sum of the amounts of the
\* user's Income records dated in [startDate, endDate], the same sum over
\* the Expense records, and the number of the user's records in the range.
C5_TypeStatsTotals ==
    Answered("stats") =>
        LET data == resp.out.data
            S == OwnedInRange(resp.req.user, resp.req.input)
        IN /\ data.totalIncome = Val(SumOf(OfType(S, "Income")))
           /\ data.totalExpense = Val(SumOf(OfType(S, "Expense")))
           /\ data.totalTransactions = Val(Cardinality(S))

\* Income 100 on 2024-01-05 and an expense 40 later in January, asked for
\* from 2024-01-05 to 2024-01-31.
C5_Witness ==
    /\ Answered("stats")
    /\ resp.req.input.startDate = Val(DateOnly(2024, 1, 5))
    /\ resp.req.input.endDate = Val(DateOnly(2024, 1, 31))
    /\ \E d \in Owned(resp.req.user) : d.date = Instant(2024, 1, 5, 0)
    /\ resp.out.data.totalIncome = Val(100000)
    /\ resp.out.data.totalExpense = Val(40000)
    /\ resp.out.data.netAmount = Val(60000)
    /\ resp.out.data.totalTransactions = Val(2)

\* The documents of a user that match the date range and the type of q.
CategoryMatches(user, q) ==
    {d \in OwnedInRange(user, q) : (q.type.p /\ q.type.v # "") => d.type = q.type.v}

PairOf(x) == [category |-> x.category, type |-> x.type]

\* C6: the category statistics hold one entry for each (category, type)
\* pair with a matching record of the user, no other entry, and the totals
\* do not increase along the output.
C6_CategoryStatsPairs ==
    Answered("categories") =>
        LET out == resp.out.data
            pairs == {PairOf(d) : d \in CategoryMatches(resp.req.user, resp.req.input)}
        IN /\ Len(out) = Cardinality(pairs)
           /\ {PairOf(out[i]) : i \in 1..Len(out)} = pairs
           /\ \A i \in 1..(Len(out) - 1) : out[i].total >= out[i + 1].total

\* Two pairs with different totals.
C6_Witness ==
    /\ Answered("categories")
    /\ Len(resp.out.data) = 2
    /\ resp.out.data[1].total > resp.out.data[2].total

\* The types of the records a user has in a month.
TypesIn(user, year, month) ==
    {d.type : d \in {x \in Owned(user) : Year(x.date) = year /\ Month(x.date) = month}}

\* C7: every entry of the monthly statistics carries income, expense,
\* incomeCount and expenseCount, with net = income - expense and
\* totalTransactions = incomeCount + expenseCount; in a month where the owner
\* has records of one type only, the other type's total and count are 0.
C7_MonthlyBothSides ==
    Answered("monthly") =>
        \A i \in 1..Len(resp.out.data) :
            LET e == resp.out.data[i]
                types == TypesIn(resp.req.user, e.year, e.month)
            IN /\ {"income", "expense", "incomeCount", "expenseCount"} \subseteq DOMAIN e
               /\ e.net = e.income - e.expense
               /\ e.totalTransactions = e.incomeCount + e.expenseCount
               /\ types = {"Expense"} => e.income = 0 /\ e.incomeCount = 0
               /\ types = {"Income"} => e.expense = 0 /\ e.expenseCount = 0

\* A month with expenses only.
C7_Witness ==
    /\ Answered("monthly")
    /\ \E i \in 1..Len(resp.out.data) :
          /\ resp.out.data[i].income = 0
          /\ resp.out.data[i].incomeCount = 0
          /\ resp.out.data[i].expense > 0
          /\ resp.out.data[i].net < 0

\* The documents of a user in the calendar year the request names.
MonthlyMatches(user, q) ==
    {d \in Owned(user) : TruthyText(q.year) => Year(d.date) = DigitsVal(q.year.v)}

\* C8: the monthly statistics hold exactly one entry per (year, month) in
\* which the owner has a matching record, in strictly ascending order by
\* year and then month.
C8_MonthlyOnePerMonth ==
    Answered("monthly") =>
        LET out == resp.out.data
            months == {<<Year(d.date), Month(d.date)>> :
                          d \in MonthlyMatches(resp.req.user, resp.req.input)}
        IN /\ {<<out[i].year, out[i].month>> : i \in 1..Len(out)} = months
           /\ Len(out) = Cardinality(months)
           /\ \A i \in 1..(Len(out) - 1) :
                 \/ out[i].year < out[i + 1].year
                 \/ out[i].year = out[i + 1].year /\ out[i].month < out[i + 1].month

\* The errors of the validation chains attached to the route of a request.
RouteErrors(req) ==
    IF req.op = "add" THEN transactionValidation(req.input)
    ELSE IF req.op = "update" THEN idValidation(req.id) \o updateTransactionValidation(req.input)
    ELSE IF req.op \in {"get", "delete"} THEN idValidation(req.id)
    ELSE queryValidation(req.input)

\* C10: every operation answers a request that fails the validation rules
\* of its route with HTTP 400 and the list of field errors, and leaves the
\* store unchanged.
C10_InvalidInputRejected ==
    [][(Idle /\ resp'.op # "none" /\ RouteErrors(resp'.req) # <<>>) =>
          /\ resp'.out.status = 400
          /\ resp'.out.errors = RouteErrors(resp'.req)
          /\ store' = store]_vars

\* C1: every transaction the list operation returns to a user is a stored
\* record owned by that user, whatever the filters, and a request with valid
\* filters succeeds, also when nothing matches or the page is past the end.
C1_ListOwnRecordsOnly ==
    resp.op = "list" =>
        /\ queryValidation(resp.req.input) = <<>> =>
              resp.out.status = 200 /\ resp.out.success
        /\ resp.out.status = 200 =>
              \A i \in 1..Len(resp.out.data.transactions) :
                  /\ resp.out.data.transactions[i] \in store
                  /\ resp.out.data.transactions[i].userId = resp.req.user

\* A non-empty page while another user has records too.
C1_Witness ==
    /\ Answered("list")
    /\ resp.out.data.transactions # <<>>
    /\ resp.req.input.limit.p
    /\ \E d \in store : d.userId # resp.req.user

\* The number a page or limit parameter names, and its default.
NumberOf(f, default) == IF f.p THEN DigitsVal(f.v) ELSE default

\* C3: the pagination of a successful list response has
\* totalPages = ceil(totalTransactions / limit), and hasNextPage is true
\* exactly when the page number is below totalPages.
C3_Pagination ==
    Answered("list") =>
        LET p == resp.out.data.pagination
            page == NumberOf(resp.req.input.page, DefaultPage)
            limit == NumberOf(resp.req.input.limit, DefaultLimit)
        IN /\ p.totalPages * limit >= p.totalTransactions
           /\ (p.totalPages - 1) * limit < p.totalTransactions
           /\ p.hasNextPage <=> page < p.totalPages

\* Page "10" of 2 pages: past the last page, though "10" < "2" as texts.
C3_Witness ==
    /\ Answered("list")
    /\ resp.req.input.page = Val(<<"1", "0">>)
    /\ resp.out.data.pagination.totalPages = 2
    /\ ~resp.out.data.pagination.hasNextPage

\* An id no record has.
MissingId == ObjectId(0)

\* The response of the handler of req to the same request naming id.
ResponseFor(req, id) ==
    IF req.op = "get" THEN getTransaction(store, req.user, id).out
    ELSE IF req.op = "update" THEN updateTransaction(store, req.user, id, req.input).out
    ELSE deleteTransaction(store, req.user, id).out

\* The request names a record that another user owns.
NamesForeign(req) ==
    /\ req.op \in {"get", "update", "delete"}
    /\ IsMongoId(req.id)
    /\ \E d \in store : d.id = req.id.n /\ d.userId # req.user

\* C2: lookup, update and delete of a record another user owns answer as
\* they answer for an id no record has: 404 'Transaction not found' when the
\* input is valid, never 403, and the store stays as it was.
C2_ForeignAsMissing ==
    [][(Idle /\ resp'.op # "none" /\ NamesForeign(resp'.req)) =>
          /\ resp'.out = ResponseFor(resp'.req, MissingId)
          /\ RouteErrors(resp'.req) = <<>> => resp'.out = NotFound
          /\ resp'.out.status # 403
          /\ store' = store]_vars

\* An update with fields to set, refused as not found, of a record that
\* another user holds.
C2_Witness ==
    /\ resp.op = "update"
    /\ resp.out = NotFound
    /\ resp.req.input.type.p
    /\ \E d \in store : d.id = resp.req.id.n /\ d.userId # resp.req.user

\* The value a supplied amount names, in thousandths.
AmountOf(a) == ParseFloat(a).n

\* The record satisfies the validation rules of a transaction.
ValidRecord(d) ==
    /\ d.amount >= MinAmount
    /\ d.type \in TypeNames
    /\ Len(d.description) \in 1..MaxDescription
    /\ Len(d.category) \in 1..MaxCategory

\* new is old with the fields of body set, texts as Text(supplied) gives them.
UpdatedAs(old, new, body, Text(_)) ==
    /\ new.id = old.id
    /\ new.userId = old.userId
    /\ new.date = IF body.date.p THEN InstantOf(body.date.v) ELSE old.date
    /\ new.description = IF body.description.p THEN Text(body.description.v)
                         ELSE old.description
    /\ new.amount = IF body.amount.p THEN AmountOf(body.amount.v) ELSE old.amount
    /\ new.category = IF body.category.p THEN Text(body.category.v) ELSE old.category
    /\ new.type = IF body.type.p THEN body.type.v ELSE old.type

\* A successful update replaces one record of the requester by a valid one
\* that is UpdatedAs says, and touches no other record.
UpdateFrame(Text(_)) ==
    (Idle /\ resp'.op = "update" /\ resp'.out.status = 200) =>
        \E old \in store :
            LET new == resp'.out.data.transaction
            IN /\ old.id = resp'.req.id.n
               /\ old.userId = resp'.req.user
               /\ store' = (store \ {old}) \cup {new}
               /\ UpdatedAs(old, new, resp'.req.input, Text)
               /\ ValidRecord(new)

Same(s) == s

CountedIn(out, y, m, t) ==
    IF \E i \in 1..Len(out) : out[i].year = y /\ out[i].month = m
    THEN LET e == out[CHOOSE i \in 1..Len(out) : out[i].year = y /\ out[i].month = m]
         IN IF t = "Income" THEN e.incomeCount ELSE e.expenseCount
    ELSE 0

\* C12: with a year supplied, the monthly statistics count exactly the
\* owner's records dated in that calendar year, from the first instant of
\* 1 January to the last instant of 31 December, and no record of another year.
C12_YearIsCalendarYear ==
    (Answered("monthly") /\ TruthyText(resp.req.input.year)) =>
        LET out == resp.out.data
            y == DigitsVal(resp.req.input.year.v)
            S == MonthlyMatches(resp.req.user, resp.req.input)
        IN /\ \A i \in 1..Len(out) : out[i].year = y
           /\ \A m \in 1..12, t \in TypeNames :
                 CountedIn(out, y, m, t)
                    = Cardinality({d \in S : Month(d.date) = m /\ d.type = t})

\* The number of records a store with total matching records leaves for
\* page number page of limit records each.
LeftForPage(total, page, limit) ==
    IF total <= (page - 1) * limit THEN 0 ELSE Min(limit, total - (page - 1) * limit)

\* C13: a list response reflects one store state: the page of records and
\* totalTransactions are taken from the same state, so the page holds
\* exactly as many records as totalTransactions leaves for it.
C13_ListFromOneState ==
    Answered("list") =>
        LET p == resp.out.data.pagination
            page == NumberOf(resp.req.input.page, DefaultPage)
            limit == NumberOf(resp.req.input.limit, DefaultLimit)
        IN Len(resp.out.data.transactions) = LeftForPage(p.totalTransactions, page, limit)

\* The records of the users other than user.
Others(st, user) == {d \in st : d.userId # user}

\* A write of a user leaves the records of every other user as they were.
WritesOwnOnly ==
    (Idle /\ resp'.op \in {"add", "update", "delete"}) =>
        Others(store', resp'.req.user) = Others(store, resp'.req.user)

\* The responses a read request may get from a store st.
Responses(st, req) ==
    IF req.op = "get" THEN {getTransaction(st, req.user, req.id).out}
    ELSE IF req.op = "stats" THEN {getTransactionStats(st, req.user, req.input).out}
    ELSE IF req.op = "categories"
    THEN {getCategoryStats(st, req.user, req.input, g).out :
             g \in CategoryAggregate(st, req.user, req.input)}
    ELSE {getMonthlyStats(st, req.user, req.input, g).out :
             g \in MonthlyAggregate(st, req.user, req.input)}

\* A lookup or statistics request is answered as it is answered from the
\* requester's own records alone.
ReadsOwnOnly ==
    (Idle /\ resp'.op \in {"get", "stats", "categories", "monthly"}) =>
        resp'.out \in Responses(Owned(resp'.req.user), resp'.req)

\* Both storage steps of a list request give what they give on the
\* requester's own records alone.
ListsOwnOnly ==
    /\ \A p \in pending' \ pending :
          p.found \in FindSorted(Owned(p.user), p.user, p.query)
    /\ (Idle /\ resp'.op = "list") =>
          \A p \in pending \ pending' :
              resp'.out = getTransactions(Owned(p.user), p.user, p.query, p.found).out

\* C11: requests of different users are isolated under every interleaving:
\* an add, update or delete of user A creates, changes or removes no record
\* of another user, and every list, lookup and statistics step of user B
\* gives what it gives on B's records alone, so B's responses are the same
\* with or without the requests of A.
C11_UsersIsolated ==
    [][WritesOwnOnly /\ ReadsOwnOnly /\ ListsOwnOnly]_vars

\* A list request of u2 answered with u2's one record and total 1 while
\* u1 holds a record added after it.
C11_Witness ==
    /\ Answered("list")
    /\ resp.req.user = "u2"
    /\ Len(resp.out.data.transactions) = 1
    /\ resp.out.data.transactions[1].id = 1
    /\ resp.out.data.pagination.totalTransactions = 1
    /\ \E d \in store : d.userId = "u1" /\ d.id = 2

====
